---- MODULE Spec2Model ----
(***************************************************************************)
(* Quiz round engine of Qui3zBot (src/main.py, src/db.py, src/quiz.py,     *)
(* src/textnorm.py).                                                       *)
(*                                                                         *)
(* The bot is one asyncio process: two background loops (hint_watcher,     *)
(* timeout_watcher) and one task per inbound update.  Control changes      *)
(* hands only at an await.  Every step of the model is one await of the    *)
(* source (a database statement, a message sent, a sleep) together with    *)
(* the synchronous code that runs after it up to the next await.           *)
(*                                                                         *)
(* Time is now_ts(): whole seconds.  asyncio.sleep(d) is a countdown of d  *)
(* seconds that Tick decrements; every other await completes within the    *)
(* second it starts in, in any order with the other coroutines' awaits.    *)
(***************************************************************************)
EXTENDS Integers, Sequences, FiniteSets, TLC

\* ---------------------------------------------------------------- constants

QUESTION_TTL_SEC == 25
PAUSE_BETWEEN_SEC == 4
MAX_POINTS == 5
MIN_POINTS == 1

\* Python's None for an integer-valued field (ids and timestamps are >= 0).
None == -1
\* Python's None for a text field (a display answer is never empty).
NoneText == << >>

\* Python truthiness of an optional integer: None and 0 are false.
Truthy(x) == x # None /\ x # 0

Max(a, b) == IF a >= b THEN a ELSE b
Min(a, b) == IF a <= b THEN a ELSE b

\* ------------------------------------------------------------------- bounds

\* The largest round count a start request is given.
MaxRounds == 2
\* The length of a run in seconds: one question's time to live, the pause
\* after it and one more second.
MaxSeconds == 30
\* The answer attempts that arrive in a run of Spec and of SpecStop.
GameAnswers == 2
StopAnswers == 1
\* The /quiz_start commands that arrive in a run of SpecStart.
RacingStarts == 2
\* Draws from the bags in one run of the draw specification.
MaxDraws == 4
\* Direct calls of the hint planner: the longest display answer (in
\* alphanumeric characters), the largest seed and the highest hint level.
MaxAlnum == 12
MaxSeed == 3
MaxLevel == 11
\* The length in seconds of a run that is followed to its end: MaxRounds
\* questions, each with its time to live, a poll and the pause after it.
LiveSeconds == 62

\* ---------------------------------------------------------------- textnorm

Upper == {"A", "G", "O", "P"}
Lowercase == {"a", "b", "e", "g", "i", "l", "o", "p", "r", "s"}
Punct == {"!", "-"}
Space == {" "}

isalnum(ch) == ch \in Upper \cup Lowercase

lower(ch) ==
    CASE ch = "A" -> "a"
      [] ch = "G" -> "g"
      [] ch = "O" -> "o"
      [] ch = "P" -> "p"
      [] OTHER -> ch

\* _punct_re.sub(" ", t): every character that is neither \w nor \s.
punct_to_space(ch) == IF ch \in Punct THEN " " ELSE ch

RECURSIVE lstrip(_)
lstrip(t) == IF t # << >> /\ Head(t) \in Space THEN lstrip(Tail(t)) ELSE t

RECURSIVE rstrip(_)
rstrip(t) ==
    IF t # << >> /\ t[Len(t)] \in Space THEN rstrip(SubSeq(t, 1, Len(t) - 1)) ELSE t

strip(t) == rstrip(lstrip(t))

\* _space_re.sub(" ", t): a run of spaces becomes one space.
RECURSIVE collapse_spaces(_)
collapse_spaces(t) ==
    IF Len(t) < 2 THEN t
    ELSE IF t[1] \in Space /\ t[2] \in Space THEN collapse_spaces(Tail(t))
    ELSE <<t[1]>> \o collapse_spaces(Tail(t))

normalize(text) ==
    IF text = << >> THEN << >>
    ELSE LET t1 == strip(text)
             t2 == [i \in 1..Len(t1) |-> punct_to_space(lower(t1[i]))]
         IN  strip(collapse_spaces(t2))

\* ---------------------------------------------------------------- variables

VARIABLES
    now,               \* now_ts()
    config,            \* table config: TRUE once a topic is bound
    state,             \* table state: the single row, as stored
    sessions,          \* table sessions: row i has session_id i
    scores,            \* table scores: user -> lifetime points
    session_scores,    \* table session_scores: <<session_id, user>> -> points
    points_events,     \* table points_events, in insertion order
    current_question,  \* main.current_question: a question id or None
    bags,              \* the QuizEngine: questions, _bag_by_tag, _bag_by_category
    pending_setup,     \* main.pending_setup for the bound topic: a category or None
    task,              \* every coroutine: where it is and its local variables
    chat,              \* the messages the bot has published, in order
    hist,              \* history: drawn = questions drawn so far; in_state and
                       \* in_memory = which draw the question in table state and
                       \* in current_question is; claims = for every winner lock,
                       \* the draw it matched (post) and the draw whose state it had
                       \* read; stopped = stop_quiz is done, no start request was
                       \* being handled then and none has written the state since;
                       \* fault = when an await raised, or None; ended = the
                       \* session ids end_session was executed with, in order
    budget,            \* the run's length in seconds, and how many more updates of
                       \* each kind will arrive
    call               \* a direct call of one function: its arguments and result

\* ------------------------------------------------------------------ catalog

Paris == <<"P", "a", "r", "i", "s">>
Ob == <<"O", "b">>
Geo == <<"G", "e", "o">>
All == <<"a", "l", "l">>

\* A questions directory as load() reads it: a category without a tag of its
\* own is added as a tag in its normalized form.
Catalog ==
    << [id |-> 1, category |-> Geo, answers |-> <<Paris>>, aliases |-> << >>,
        tags |-> <<normalize(Geo)>>],
       [id |-> 2, category |-> Geo, answers |-> <<Ob>>,
        aliases |-> <<<<"o", "b", "!">>>>, tags |-> <<normalize(Geo)>>] >>

\* A questions directory in which the second question carries a tag of its
\* own: the tag scope "ob" holds question 2 only.
Ob_tag == <<"o", "b">>
ScopedCatalog ==
    << [id |-> 1, category |-> Geo, answers |-> <<Paris>>, aliases |-> << >>,
        tags |-> <<normalize(Geo)>>],
       [id |-> 2, category |-> Geo, answers |-> <<Ob>>,
        aliases |-> << >>, tags |-> <<Ob_tag, normalize(Geo)>>] >>

\* A questions directory of three questions: every question is in scope all,
\* two carry the tag geo and have category Geo, one has a tag and a category
\* of its own.
Pisa == <<"P", "i", "s", "a">>
Po == <<"P", "o">>
DrawCatalog ==
    << [id |-> 1, category |-> Geo, answers |-> <<Paris>>, aliases |-> << >>,
        tags |-> <<normalize(Geo)>>],
       [id |-> 2, category |-> Geo, answers |-> <<Ob>>,
        aliases |-> << >>, tags |-> <<Ob_tag, normalize(Geo)>>],
       [id |-> 3, category |-> Po, answers |-> <<Pisa>>,
        aliases |-> << >>, tags |-> <<normalize(Po)>>] >>

\* A questions directory of one question whose answer has twelve letters: the
\* hint plan gives it the cap of four hints.
Gooseberries == <<"G", "o", "o", "s", "e", "b", "e", "r", "r", "i", "e", "s">>
HintCatalog ==
    << [id |-> 1, category |-> Geo, answers |-> <<Gooseberries>>, aliases |-> << >>,
        tags |-> <<normalize(Geo)>>] >>

\* QuizEngine.questions
questions == bags.questions

SeqToSet(s) == {s[i] : i \in 1..Len(s)}

by_id(qid) == CHOOSE q \in SeqToSet(questions) : q.id = qid

\* QuizEngine.list_tags
list_tags == (UNION {SeqToSet(q.tags) : q \in SeqToSet(questions)}) \ {All}

\* QuizEngine.list_categories
list_categories == {q.category : q \in {x \in SeqToSet(questions) : x.category # << >>}}

RECURSIVE is_prefix(_, _)
is_prefix(t, a) ==
    \/ t = << >>
    \/ a # << >> /\ Head(t) = Head(a) /\ is_prefix(Tail(t), Tail(a))

\* A match that accepts the beginning of an answer (str.startswith).
check_answer_prefix(question, user_text) ==
    LET t == normalize(user_text)
        correct == {normalize(a) : a \in SeqToSet(question.answers)}
                     \cup {normalize(a) : a \in SeqToSet(question.aliases)}
    IN  IF t = << >> THEN FALSE ELSE \E a \in correct : is_prefix(t, a)

\* QuizEngine.check_answer
check_answer(question, user_text) ==
    LET t == normalize(user_text)
        correct == {normalize(a) : a \in SeqToSet(question.answers)}
                     \cup {normalize(a) : a \in SeqToSet(question.aliases)}
    IN  IF t = << >> THEN FALSE ELSE t \in correct

\* The texts a user sends.
Texts ==
    { <<"p", "a", "r", "i", "s">>, <<" ", "P", "A", "r", "i", "s", "!">>,
      <<"o", "b">>, <<"!">>, <<"p", "a">> }

\* --------------------------------------------------------------- hint plan

alnum_count(answer_display) ==
    Cardinality({i \in 1..Len(answer_display) : isalnum(answer_display[i])})

\* The thresholds compared with < instead of <=.
choose_hint_total_exclusive(n) ==
    IF n < 2 THEN 0
    ELSE IF n < 4 THEN 1
    ELSE IF n < 7 THEN 2
    ELSE IF n < 10 THEN 3
    ELSE 4

choose_hint_total(n) ==
    IF n <= 2 THEN 0
    ELSE IF n <= 4 THEN 1
    ELSE IF n <= 7 THEN 2
    ELSE IF n <= 10 THEN 3
    ELSE 4

choose_hint_plan(answer_display) ==
    LET hint_total == choose_hint_total(alnum_count(answer_display))
    IN  IF hint_total <= 0
        THEN [hint_total |-> 0, interval_sec |-> 9999]
        ELSE LET available == Max(5, QUESTION_TTL_SEC - 7)
                 interval == Max(4, available \div (hint_total + 1))
             IN  [hint_total |-> hint_total, interval_sec |-> interval]

\* The score without its floor.
points_without_floor(hint_level) == MAX_POINTS - hint_level

points_for_hint_level(hint_level) == Max(MIN_POINTS, MAX_POINTS - hint_level)

\* [i for i, ch in enumerate(answer_display) if ch.isalnum()]: indices from 0.
alnum_positions(answer_display) ==
    SelectSeq([i \in 1..Len(answer_display) |-> i - 1],
              LAMBDA i : isalnum(answer_display[i + 1]))

\* random.Random(seed).shuffle(pos): one fixed order for a seed and a length.
\* The generator itself is not modelled: the order stands for it, a rotation
\* of pos by the seed, reversed for every second round of seeds.
seeded_shuffle(pos, seed) ==
    LET n == Len(pos)
        rot == [i \in 1..n |-> pos[((i - 1 + seed) % n) + 1]]
    IN  IF n = 0 THEN pos
        ELSE IF (seed \div n) % 2 = 1 THEN [i \in 1..n |-> rot[n + 1 - i]]
        ELSE rot

shuffled_alnum_positions(answer_display, seed) ==
    seeded_shuffle(alnum_positions(answer_display), seed)

\* math.ceil(a / b) for a >= 0, b > 0.
ceil_div(a, b) == (a + b - 1) \div b

\* The count with the last hint showing everything: level / hint_total.
reveal_count_of_total(n, hint_level_next, hint_total) ==
    Max(1, ceil_div(n * hint_level_next, hint_total))

\* hint_watcher: frac = hint_level_next / (hint_total + 1);
\* k = max(1, math.ceil(n * frac)).  The float product rounds to the ceiling
\* of the exact quotient for the lengths a display answer has.
reveal_count(n, hint_level_next, hint_total) ==
    Max(1, ceil_div(n * hint_level_next, hint_total + 1))

\* A hint that shuffles anew for every level.
reveal_positions_reshuffled(answer_display, seed, hint_level_next, hint_total) ==
    LET total_positions == shuffled_alnum_positions(answer_display, seed + hint_level_next)
        k == reveal_count(Len(total_positions), hint_level_next, hint_total)
    IN  {total_positions[i] : i \in 1..Min(k, Len(total_positions))}

\* hint_watcher: reveal_positions = set(total_positions[:k])
reveal_positions(answer_display, seed, hint_level_next, hint_total) ==
    LET total_positions == shuffled_alnum_positions(answer_display, seed)
        k == reveal_count(Len(total_positions), hint_level_next, hint_total)
    IN  {total_positions[i] : i \in 1..Min(k, Len(total_positions))}

\* -------------------------------------------------------------------- state

Users == {1, 2}

HintTask == "hint_watcher"
TimeoutTask == "timeout_watcher"
AnswerTasks == {"on_text_answer_1", "on_text_answer_2"}
StartTasks == {"cmd_quiz_start_1", "cmd_quiz_start_2"}
StopTasks == {"cmd_quiz_stop"}
SkipTasks == {"cmd_skip"}
RoundTasks == {"cb_choose_round"}
Tasks ==
    {HintTask, TimeoutTask} \cup AnswerTasks \cup StartTasks \cup StopTasks
        \cup SkipTasks \cup RoundTasks

vars ==
    <<now, config, state, sessions, scores, session_scores, points_events,
      current_question, bags, pending_setup, task, chat, hist, budget, call>>

db_scores == <<scores, session_scores, points_events>>

\* The columns of table state (CREATE TABLE and the migrations).
Columns ==
    {"active", "current_qid", "winner_user_id", "deadline_ts", "tag", "round_total",
     "round_current", "session_id", "hint_level", "hint_total", "hint_answer",
     "next_hint_ts"}

\* INSERT OR IGNORE INTO state(id) VALUES (1): active defaults to 0, the rest NULL.
InitialRow ==
    [active |-> 0, current_qid |-> None, winner_user_id |-> None, deadline_ts |-> None,
     tag |-> NoneText, round_total |-> None, round_current |-> None,
     session_id |-> None, hint_level |-> None, hint_total |-> None, hint_answer |-> NoneText,
     next_hint_ts |-> None]

\* db.get_state: the row with its `or` defaults applied.
get_state(row) ==
    [active |-> row.active # 0,
     current_qid |-> row.current_qid,
     winner_user_id |-> row.winner_user_id,
     deadline_ts |-> row.deadline_ts,
     tag |-> IF row.tag = NoneText THEN All ELSE row.tag,
     round_total |-> row.round_total,
     round_current |-> IF Truthy(row.round_current) THEN row.round_current ELSE 0,
     session_id |-> row.session_id,
     hint_level |-> IF Truthy(row.hint_level) THEN row.hint_level ELSE 0,
     hint_total |-> IF Truthy(row.hint_total) THEN row.hint_total ELSE 0,
     hint_answer |-> row.hint_answer,
     next_hint_ts |-> row.next_hint_ts]

\* db.set_state: UPDATE state SET k=? for the given keys only.  SQLite rejects
\* the statement when a key is no column of the table.
set_state_raises(kwargs) == ~(DOMAIN kwargs \subseteq Columns)

set_state(row, kwargs) ==
    [k \in Columns |-> IF k \in DOMAIN kwargs THEN kwargs[k] ELSE row[k]]

\* db.create_session: the new row; lastrowid is its index.
create_session(tag, round_total) ==
    Append(sessions, [tag |-> tag, round_total |-> round_total, ended_at |-> None])

\* db.end_session: UPDATE sessions SET ended_at=now WHERE session_id=?
end_session(session_id) ==
    [i \in 1..Len(sessions) |->
        IF i = session_id THEN [sessions[i] EXCEPT !.ended_at = now] ELSE sessions[i]]

\* A coroutine's local variables.
IdleTask ==
    [pc |-> "idle", rem |-> 0, user |-> None, session_id |-> None, hint_level |-> 0,
     pts |-> 0, total |-> None, cur |-> 0, q |-> None, deadline |-> None,
     next_hint_ts |-> None, hint_total |-> 0, answer_display |-> NoneText,
     tag |-> NoneText, rounds |-> 0, post |-> 0, read |-> 0]

\* No start request (/quiz_start, round-count button) is being handled.
NoStartRequest == \A t \in StartTasks \cup RoundTasks : task[t].pc = "idle"

LoopTask(rem) == [IdleTask EXCEPT !.pc = "loop", !.rem = rem]

\* The coroutine ends, or, in a watcher, sleeps a second and loops.
Return(t) == IF t \in {HintTask, TimeoutTask} THEN LoopTask(1) ELSE IdleTask

Publish(kind, post, arg) == Append(chat, [kind |-> kind, post |-> post, arg |-> arg])

NoBudget ==
    [seconds |-> 0, answer |-> 0, start |-> 0, stop |-> 0, skip |-> 0, round |-> 0,
     fault |-> 0]

\* No function is called directly.
NoCall == [fn |-> "none"]

\* After QuizEngine(QUESTIONS_PATH) has loaded `loaded`, init_db() and
\* asyncio.create_task() of the two watchers.
InitOn(b, loaded, c) ==
    /\ now = 0
    /\ config = FALSE
    /\ state = InitialRow
    /\ sessions = << >>
    /\ scores = [u \in Users |-> 0]
    /\ session_scores = << >>
    /\ points_events = << >>
    /\ current_question = None
    /\ bags = [questions |-> loaded, by_tag |-> << >>, by_category |-> << >>]
    /\ pending_setup = NoneText
    /\ task = [t \in Tasks |-> IF t \in {HintTask, TimeoutTask} THEN LoopTask(0) ELSE IdleTask]
    /\ chat = << >>
    /\ hist = [drawn |-> 0, in_state |-> 0, in_memory |-> 0, claims |-> << >>,
               stopped |-> FALSE, fault |-> None, ended |-> << >>]
    /\ budget = b
    /\ call = c

InitWith(b) == InitOn(b, Catalog, NoCall)

\* ---------------------------------------------------------------- draw bags

Put(f, k, v) == [x \in DOMAIN f \cup {k} |-> IF x = k THEN v ELSE f[x]]

\* A shuffle that samples with replacement (random.choices) instead.
Shuffles_with_replacement(ids) == [1..Len(ids) -> SeqToSet(ids)]

\* random.shuffle(ids): every order of the ids.
Shuffles(ids) ==
    {p \in [1..Len(ids) -> SeqToSet(ids)] :
        \A i \in 1..Len(ids) : \E j \in 1..Len(ids) : p[j] = ids[i]}

\* QuizEngine._ids_for_tag
ids_for_tag(tag) ==
    IF tag = All
    THEN [i \in 1..Len(questions) |-> questions[i].id]
    ELSE LET hits == SelectSeq(questions,
                        LAMBDA q : normalize(tag) \in {normalize(x) : x \in SeqToSet(q.tags)})
         IN  [i \in 1..Len(hits) |-> hits[i].id]

\* A pop that reads the last id and leaves it in the bag (ids[-1]).
Pop_keeps_id(ids) ==
    IF ids = << >>
    THEN [raises |-> TRUE, qid |-> None, rest |-> ids]
    ELSE [raises |-> FALSE, qid |-> ids[Len(ids)], rest |-> ids]

\* list.pop() of the bag `ids`: its last id and the rest; an empty list raises.
Pop(ids) ==
    IF ids = << >>
    THEN [raises |-> TRUE, qid |-> None, rest |-> ids]
    ELSE [raises |-> FALSE, qid |-> ids[Len(ids)], rest |-> SubSeq(ids, 1, Len(ids) - 1)]

\* QuizEngine.next_question(tag=tag): every outcome the shuffle allows.
next_question_tag(b, tag) ==
    LET refill == tag \notin DOMAIN b.by_tag \/ b.by_tag[tag] = << >>
        fills == IF refill THEN Shuffles(ids_for_tag(tag)) ELSE {b.by_tag[tag]}
    IN  {[raises |-> Pop(ids).raises, qid |-> Pop(ids).qid,
          bags |-> [b EXCEPT !.by_tag = Put(@, tag, Pop(ids).rest)]] : ids \in fills}

\* A category draw without the fallback: an empty category bag is popped.
next_by_category_no_fallback(b, category) ==
    LET cat_n == normalize(category)
        refill == cat_n \notin DOMAIN b.by_category \/ b.by_category[cat_n] = << >>
        hits == SelectSeq(questions, LAMBDA q : normalize(q.category) = cat_n)
        fills == IF refill
                 THEN Shuffles([i \in 1..Len(hits) |-> hits[i].id])
                 ELSE {b.by_category[cat_n]}
    IN  {[raises |-> Pop(ids).raises, qid |-> Pop(ids).qid,
          bags |-> [b EXCEPT !.by_category = Put(@, cat_n, Pop(ids).rest)]] : ids \in fills}

\* QuizEngine._next_by_category
next_by_category(b, category) ==
    LET cat_n == normalize(category)
        refill == cat_n \notin DOMAIN b.by_category \/ b.by_category[cat_n] = << >>
        hits == SelectSeq(questions, LAMBDA q : normalize(q.category) = cat_n)
        fills == IF refill
                 THEN Shuffles([i \in 1..Len(hits) |-> hits[i].id])
                 ELSE {b.by_category[cat_n]}
    IN  UNION { IF ids = << >>
                THEN next_question_tag([b EXCEPT !.by_category = Put(@, cat_n, ids)], All)
                ELSE {[raises |-> FALSE, qid |-> Pop(ids).qid,
                       bags |-> [b EXCEPT !.by_category = Put(@, cat_n, Pop(ids).rest)]]}
              : ids \in fills }

\* QuizEngine.next_question
next_question(b, tag, category) ==
    IF category # NoneText THEN next_by_category(b, category) ELSE next_question_tag(b, tag)

\* ------------------------------------------------------ post_next_question

\* st.get("category"): the dict get_state returns has no such key.
st_get_category(st) == IF "category" \in DOMAIN st THEN st.category ELSE NoneText

\* post_next_question, from `st = await get_state()` to the next await: either
\* the game is over, or a question is drawn and becomes current_question.
pnq_get_state(t) ==
    /\ task[t].pc = "pnq_get_state"
    /\ task[t].rem = 0
    /\ LET st == get_state(state)
           category == st_get_category(st)
           total == st.round_total
           cur == st.round_current
       IN  IF total # None /\ cur >= total
           THEN /\ task' = [task EXCEPT ![t] = [IdleTask EXCEPT
                              !.pc = "pnq_finish_set_state",
                              !.session_id = st.session_id]]
                /\ UNCHANGED <<current_question, bags, hist>>
           ELSE \E d \in next_question(bags, All, category) :
                  /\ bags' = d.bags
                  /\ IF d.raises
                     THEN \* pop from an empty list: IndexError ends the coroutine
                          /\ task' = [task EXCEPT ![t] = IdleTask]
                          /\ UNCHANGED <<current_question, hist>>
                     ELSE /\ current_question' = d.qid
                          /\ hist' = [hist EXCEPT !.drawn = @ + 1, !.in_memory = hist.drawn + 1]
                          /\ LET answer_display == by_id(d.qid).answers[1]
                                 plan == choose_hint_plan(answer_display)
                             IN  task' = [task EXCEPT ![t] = [IdleTask EXCEPT
                                      !.pc = "pnq_set_state",
                                      !.q = d.qid,
                                      !.total = total,
                                      !.cur = cur + 1,
                                      !.deadline = now + QUESTION_TTL_SEC,
                                      !.hint_total = plan.hint_total,
                                      !.answer_display = answer_display,
                                      !.next_hint_ts = IF plan.hint_total > 0
                                                       THEN now + plan.interval_sec ELSE None,
                                      !.post = hist.drawn + 1]]
    /\ UNCHANGED <<now, config, call, state, sessions, db_scores, pending_setup, chat, budget>>

\* await set_state(active=1, current_qid=q["id"], ...)
pnq_set_state(t) ==
    /\ task[t].pc = "pnq_set_state"
    /\ state' = set_state(state,
            [active |-> 1, current_qid |-> task[t].q, winner_user_id |-> None,
             deadline_ts |-> task[t].deadline, round_current |-> task[t].cur,
             hint_level |-> 0, hint_total |-> task[t].hint_total,
             hint_answer |-> task[t].answer_display,
             next_hint_ts |-> task[t].next_hint_ts])
    /\ hist' = [hist EXCEPT !.in_state = task[t].post]
    /\ task' = [task EXCEPT ![t].pc = "pnq_send_question"]
    /\ UNCHANGED <<now, config, call, sessions, db_scores, current_question, bags,
                   pending_setup, chat, budget>>

\* await bot.send_message(chat_id, question)
pnq_send_question(t) ==
    /\ task[t].pc = "pnq_send_question"
    /\ chat' = Publish("question", task[t].post, task[t].cur)
    /\ task' = [task EXCEPT ![t] = Return(t)]
    /\ UNCHANGED <<now, config, call, state, sessions, db_scores, current_question, bags,
                   pending_setup, hist, budget>>

\* await set_state(active=0, deadline_ts=None, next_hint_ts=None)
pnq_finish_set_state(t) ==
    /\ task[t].pc = "pnq_finish_set_state"
    /\ state' = set_state(state,
            [active |-> 0, deadline_ts |-> None, next_hint_ts |-> None])
    /\ task' = [task EXCEPT ![t].pc =
            IF Truthy(task[t].session_id) THEN "pnq_end_session" ELSE "pnq_send_finished"]
    /\ UNCHANGED <<now, config, call, sessions, db_scores, current_question, bags,
                   pending_setup, chat, hist, budget>>

\* await end_session(session_id)
pnq_end_session(t) ==
    /\ task[t].pc = "pnq_end_session"
    /\ sessions' = end_session(task[t].session_id)
    /\ hist' = [hist EXCEPT !.ended = Append(@, task[t].session_id)]
    /\ task' = [task EXCEPT ![t].pc = "pnq_send_finished"]
    /\ UNCHANGED <<now, config, call, state, db_scores, current_question, bags,
                   pending_setup, chat, budget>>

\* await top_session(...); await bot.send_message(chat_id, "game finished")
pnq_send_finished(t) ==
    /\ task[t].pc = "pnq_send_finished"
    /\ chat' = Publish("finished", 0, task[t].session_id)
    /\ task' = [task EXCEPT ![t] = Return(t)]
    /\ UNCHANGED <<now, config, call, state, sessions, db_scores, current_question, bags,
                   pending_setup, hist, budget>>

post_next_question(t) ==
    \/ pnq_get_state(t)
    \/ pnq_set_state(t)
    \/ pnq_send_question(t)
    \/ pnq_finish_set_state(t)
    \/ pnq_end_session(t)
    \/ pnq_send_finished(t)

\* ------------------------------------------------------------ hint_watcher

\* One pass of the loop from `st = await get_state()`: either a hint is due and
\* is about to be sent, or the loop sleeps a second.
hw_get_state ==
    /\ task[HintTask].pc = "loop"
    /\ task[HintTask].rem = 0
    /\ LET st == get_state(state)
       IN  IF /\ st.active /\ config
              /\ st.winner_user_id = None
              /\ Truthy(st.hint_total)
              /\ st.hint_level < st.hint_total
              /\ Truthy(st.next_hint_ts) /\ now >= st.next_hint_ts
              /\ st.hint_answer # NoneText
           THEN task' = [task EXCEPT ![HintTask] = [IdleTask EXCEPT
                            !.pc = "hw_send_message",
                            !.hint_level = st.hint_level + 1,
                            !.hint_total = st.hint_total,
                            !.answer_display = st.hint_answer,
                            !.q = st.current_qid,
                            !.post = hist.in_state]]
           ELSE task' = [task EXCEPT ![HintTask] = LoopTask(1)]
    /\ UNCHANGED <<now, config, call, state, sessions, db_scores, current_question, bags,
                   pending_setup, chat, hist, budget>>

\* await bot.send_message(hint), then the next hint is scheduled from now_ts().
hw_send_message ==
    /\ task[HintTask].pc \in {"hw_send_message", "hw_send_message_late"}
    /\ chat' = Publish("hint", task[HintTask].post, task[HintTask].hint_level)
    /\ LET plan == choose_hint_plan(task[HintTask].answer_display)
       IN  task' = [task EXCEPT ![HintTask].pc = "hw_set_state",
                                ![HintTask].next_hint_ts =
                                    IF task[HintTask].hint_level < task[HintTask].hint_total
                                    THEN now + plan.interval_sec ELSE None]
    /\ UNCHANGED <<now, config, call, state, sessions, db_scores, current_question, bags,
                   pending_setup, hist, budget>>

\* `await bot.send_message(hint)` is in flight when the second ends: the
\* message is published, and the next hint scheduled, in the following second.
\* Every other coroutine is idle or asleep meanwhile.
hw_send_message_takes_a_second ==
    /\ task[HintTask].pc = "hw_send_message"
    /\ now < budget.seconds
    /\ \A t \in Tasks \ {HintTask} : task[t].pc = "idle" \/ task[t].rem > 0
    /\ now' = now + 1
    /\ task' = [t \in Tasks |->
                  IF t = HintTask THEN [task[t] EXCEPT !.pc = "hw_send_message_late"]
                  ELSE [task[t] EXCEPT !.rem = Max(0, @ - 1)]]
    /\ UNCHANGED <<config, call, state, sessions, db_scores, current_question, bags,
                   pending_setup, chat, hist, budget>>

\* await set_state(hint_level=hint_level_next, next_hint_ts=next_hint_ts)
hw_set_state ==
    /\ task[HintTask].pc = "hw_set_state"
    /\ state' = set_state(state,
            [hint_level |-> task[HintTask].hint_level,
             next_hint_ts |-> task[HintTask].next_hint_ts])
    /\ task' = [task EXCEPT ![HintTask] = LoopTask(1)]
    /\ UNCHANGED <<now, config, call, sessions, db_scores, current_question, bags,
                   pending_setup, chat, hist, budget>>

hint_watcher == hw_get_state \/ hw_send_message \/ hw_set_state

\* --------------------------------------------------------- timeout_watcher

\* One pass of the loop from `st = await get_state()`.
tw_get_state ==
    /\ task[TimeoutTask].pc = "loop"
    /\ task[TimeoutTask].rem = 0
    /\ LET st == get_state(state)
       IN  IF /\ st.active /\ config
              /\ Truthy(st.deadline_ts) /\ now >= st.deadline_ts
              /\ st.winner_user_id = None
           THEN task' = [task EXCEPT ![TimeoutTask] = [IdleTask EXCEPT
                            !.pc = "tw_send_message", !.post = hist.in_state]]
           ELSE task' = [task EXCEPT ![TimeoutTask] = LoopTask(1)]
    /\ UNCHANGED <<now, config, call, state, sessions, db_scores, current_question, bags,
                   pending_setup, chat, hist, budget>>

\* await bot.send_message("time is up"), then asyncio.sleep(PAUSE_BETWEEN_SEC)
\* and post_next_question.
tw_send_message ==
    /\ task[TimeoutTask].pc = "tw_send_message"
    /\ chat' = Publish("timeout", task[TimeoutTask].post, 0)
    /\ task' = [task EXCEPT ![TimeoutTask] = [IdleTask EXCEPT
                    !.pc = "pnq_get_state", !.rem = PAUSE_BETWEEN_SEC]]
    /\ UNCHANGED <<now, config, call, state, sessions, db_scores, current_question, bags,
                   pending_setup, hist, budget>>

timeout_watcher == tw_get_state \/ tw_send_message \/ post_next_question(TimeoutTask)

\* ---------------------------------------------------------- on_text_answer

UserOf(t) == IF t = "on_text_answer_1" THEN 1 ELSE 2

\* The handler up to its first write: ensure_topic_or_hint, upsert_user,
\* get_state and the checks.  An ignored attempt ends here.
ota_get_state(t, text) ==
    /\ task[t].pc = "idle"
    /\ budget.answer > 0
    /\ budget' = [budget EXCEPT !.answer = @ - 1]
    /\ LET st == get_state(state)
           q == current_question
       IN  IF /\ config
              /\ st.active
              /\ st.winner_user_id = None
              /\ q # None
              /\ Len(normalize(text)) >= 1
              /\ check_answer(by_id(q), text)
           THEN task' = [task EXCEPT ![t] = [IdleTask EXCEPT
                            !.pc = "ota_set_state",
                            !.user = UserOf(t),
                            !.hint_level = st.hint_level,
                            !.pts = points_for_hint_level(st.hint_level),
                            !.session_id = IF Truthy(st.session_id) THEN st.session_id ELSE 0,
                            !.post = hist.in_memory,
                            !.read = hist.in_state]]
           ELSE UNCHANGED task
    /\ UNCHANGED <<now, config, call, state, sessions, db_scores, current_question, bags,
                   pending_setup, chat, hist>>

\* await set_state(winner_user_id=user, deadline_ts=None, next_hint_ts=None)
ota_set_state(t) ==
    /\ task[t].pc = "ota_set_state"
    /\ state' = set_state(state,
            [winner_user_id |-> task[t].user, deadline_ts |-> None,
             next_hint_ts |-> None])
    /\ hist' = [hist EXCEPT !.claims =
                    Append(@, [post |-> task[t].post, read |-> task[t].read])]
    /\ task' = [task EXCEPT ![t].pc = "ota_add_points_alltime"]
    /\ UNCHANGED <<now, config, call, sessions, db_scores, current_question, bags,
                   pending_setup, chat, budget>>

\* await add_points_alltime(chat, thread, user, pts)
ota_add_points_alltime(t) ==
    /\ task[t].pc = "ota_add_points_alltime"
    /\ scores' = [scores EXCEPT ![task[t].user] = @ + task[t].pts]
    /\ task' = [task EXCEPT ![t].pc =
            IF Truthy(task[t].session_id) THEN "ota_add_points_session"
            ELSE "ota_add_points_event"]
    /\ UNCHANGED <<now, config, call, state, sessions, session_scores, points_events,
                   current_question, bags, pending_setup, chat, hist, budget>>

\* await add_points_session(session_id, user, pts)
ota_add_points_session(t) ==
    /\ task[t].pc = "ota_add_points_session"
    /\ LET key == <<task[t].session_id, task[t].user>>
           old == IF key \in DOMAIN session_scores THEN session_scores[key] ELSE 0
       IN  session_scores' = Put(session_scores, key, old + task[t].pts)
    /\ task' = [task EXCEPT ![t].pc = "ota_add_points_event"]
    /\ UNCHANGED <<now, config, call, state, sessions, scores, points_events,
                   current_question, bags, pending_setup, chat, hist, budget>>

\* await add_points_event(now_ts(), chat, thread, session_id, user, pts, "correct")
ota_add_points_event(t) ==
    /\ task[t].pc = "ota_add_points_event"
    /\ points_events' = Append(points_events,
            [session_id |-> task[t].session_id, user_id |-> task[t].user,
             delta |-> task[t].pts])
    /\ task' = [task EXCEPT ![t].pc = "ota_reply"]
    /\ UNCHANGED <<now, config, call, state, sessions, scores, session_scores,
                   current_question, bags, pending_setup, chat, hist, budget>>

\* await message.reply("answered first"), then asyncio.sleep(PAUSE_BETWEEN_SEC)
\* and post_next_question.
ota_reply(t) ==
    /\ task[t].pc = "ota_reply"
    /\ chat' = Publish("win", task[t].post, task[t].user)
    /\ task' = [task EXCEPT ![t] = [IdleTask EXCEPT
                    !.pc = "pnq_get_state", !.rem = PAUSE_BETWEEN_SEC]]
    /\ UNCHANGED <<now, config, call, state, sessions, db_scores, current_question, bags,
                   pending_setup, hist, budget>>

on_text_answer(t) ==
    \/ \E text \in Texts : ota_get_state(t, text)
    \/ ota_set_state(t)
    \/ ota_add_points_alltime(t)
    \/ ota_add_points_session(t)
    \/ ota_add_points_event(t)
    \/ ota_reply(t)
    \/ post_next_question(t)

\* ----------------------------------------------------------------- commands

\* cmd_set_topic, sent inside a topic.
cmd_set_topic ==
    /\ ~config
    /\ config' = TRUE
    /\ UNCHANGED <<now, state, sessions, db_scores, current_question, bags,
                   pending_setup, task, chat, hist, budget, call>>

\* The arguments of /quiz_start: none (the menu), or a tag and a round count.
StartArgs ==
    {<< >>} \cup {<<tag, rounds>> : tag \in {All, <<"o", "b">>},
                                    rounds \in 0..MaxRounds}

clamp_rounds(rounds) == Max(1, Min(rounds, 50))

\* cmd_quiz_start up to start_quiz: ensure_topic_or_hint, get_state, the
\* argument checks and the reply.
cqs_get_state(t, parts) ==
    /\ task[t].pc = "idle"
    /\ budget.start > 0
    /\ budget' = [budget EXCEPT !.start = @ - 1]
    /\ LET st == get_state(state)
       IN  IF ~config \/ st.active
           THEN UNCHANGED <<task, pending_setup>>
           ELSE IF parts = << >>
           THEN /\ pending_setup' =
                     (IF list_categories = {} THEN NoneText
                      ELSE CHOOSE c \in list_categories : TRUE)
                /\ UNCHANGED task
           ELSE IF parts[1] \notin {All} \cup list_tags
           THEN UNCHANGED <<task, pending_setup>>
           ELSE /\ task' = [task EXCEPT ![t] = [IdleTask EXCEPT
                              !.pc = "start_quiz_create_session",
                              !.tag = parts[1],
                              !.rounds = clamp_rounds(parts[2])]]
                /\ UNCHANGED pending_setup
    /\ UNCHANGED <<now, config, call, state, sessions, db_scores, current_question, bags,
                   chat, hist>>

\* start_quiz: session_id = await create_session(chat, thread, tag, rounds)
start_quiz_create_session(t) ==
    /\ task[t].pc = "start_quiz_create_session"
    /\ sessions' = create_session(task[t].tag, task[t].rounds)
    /\ task' = [task EXCEPT ![t].pc = "start_quiz_set_state",
                            ![t].session_id = Len(sessions) + 1]
    /\ UNCHANGED <<now, config, call, state, db_scores, current_question, bags,
                   pending_setup, chat, hist, budget>>

\* start_quiz: await set_state(active=1, ..., session_id=session_id, ...)
start_quiz_set_state(t) ==
    /\ task[t].pc = "start_quiz_set_state"
    /\ state' = set_state(state,
            [active |-> 1, current_qid |-> None, winner_user_id |-> None,
             deadline_ts |-> None, tag |-> task[t].tag, round_total |-> task[t].rounds,
             round_current |-> 0, session_id |-> task[t].session_id, hint_level |-> 0,
             hint_total |-> 0, hint_answer |-> NoneText, next_hint_ts |-> None])
    /\ hist' = [hist EXCEPT !.in_state = 0, !.stopped = FALSE]
    /\ task' = [task EXCEPT ![t] = [IdleTask EXCEPT !.pc = "pnq_get_state"]]
    /\ UNCHANGED <<now, config, call, sessions, db_scores, current_question, bags,
                   pending_setup, chat, budget>>

cmd_quiz_start(t) ==
    \/ \E parts \in StartArgs : cqs_get_state(t, parts)
    \/ start_quiz_create_session(t)
    \/ start_quiz_set_state(t)
    \/ post_next_question(t)

\* cmd_quiz_stop up to stop_quiz's `st = await get_state()`.
stop_quiz_get_state(t) ==
    /\ task[t].pc = "idle"
    /\ budget.stop > 0
    /\ budget' = [budget EXCEPT !.stop = @ - 1]
    /\ IF ~config
       THEN UNCHANGED task
       ELSE LET st == get_state(state)
            IN  task' = [task EXCEPT ![t] = [IdleTask EXCEPT
                    !.pc = IF Truthy(st.session_id) THEN "stop_quiz_end_session"
                           ELSE "stop_quiz_set_state",
                    !.session_id = st.session_id]]
    /\ UNCHANGED <<now, config, call, state, sessions, db_scores, current_question, bags,
                   pending_setup, chat, hist>>

\* stop_quiz: await end_session(st["session_id"])
stop_quiz_end_session(t) ==
    /\ task[t].pc = "stop_quiz_end_session"
    /\ sessions' = end_session(task[t].session_id)
    /\ hist' = [hist EXCEPT !.ended = Append(@, task[t].session_id)]
    /\ task' = [task EXCEPT ![t].pc = "stop_quiz_set_state"]
    /\ UNCHANGED <<now, config, call, state, db_scores, current_question, bags,
                   pending_setup, chat, budget>>

\* stop_quiz: await set_state(active=0, ..., tag="all", round_total=None, ...)
stop_quiz_set_state(t) ==
    /\ task[t].pc = "stop_quiz_set_state"
    /\ state' = set_state(state,
            [active |-> 0, current_qid |-> None, winner_user_id |-> None,
             deadline_ts |-> None, tag |-> All, round_total |-> None,
             round_current |-> 0, session_id |-> None, hint_level |-> 0,
             hint_total |-> 0, hint_answer |-> NoneText, next_hint_ts |-> None])
    /\ hist' = [hist EXCEPT !.in_state = 0, !.stopped = NoStartRequest]
    /\ task' = [task EXCEPT ![t].pc = "cmd_quiz_stop_reply"]
    /\ UNCHANGED <<now, config, call, sessions, db_scores, current_question, bags,
                   pending_setup, chat, budget>>

\* cmd_quiz_stop: await top_session(...); await message.reply("quiz stopped")
cmd_quiz_stop_reply(t) ==
    /\ task[t].pc = "cmd_quiz_stop_reply"
    /\ chat' = Publish("stopped", 0, task[t].session_id)
    /\ task' = [task EXCEPT ![t] = IdleTask]
    /\ UNCHANGED <<now, config, call, state, sessions, db_scores, current_question, bags,
                   pending_setup, hist, budget>>

cmd_quiz_stop(t) ==
    \/ stop_quiz_get_state(t)
    \/ stop_quiz_end_session(t)
    \/ stop_quiz_set_state(t)
    \/ cmd_quiz_stop_reply(t)

\* cmd_skip up to asyncio.sleep(1) before post_next_question.
skip_get_state(t) ==
    /\ task[t].pc = "idle"
    /\ budget.skip > 0
    /\ budget' = [budget EXCEPT !.skip = @ - 1]
    /\ IF config /\ get_state(state).active
       THEN task' = [task EXCEPT ![t] = [IdleTask EXCEPT !.pc = "pnq_get_state", !.rem = 1]]
       ELSE UNCHANGED task
    /\ UNCHANGED <<now, config, call, state, sessions, db_scores, current_question, bags,
                   pending_setup, chat, hist>>

cmd_skip(t) == skip_get_state(t) \/ post_next_question(t)

\* cb_choose_category: pending_setup[key]["category"] = category
cb_choose_category ==
    /\ config
    /\ \E category \in list_categories :
          /\ pending_setup # category
          /\ pending_setup' = category
    /\ UNCHANGED <<now, config, call, state, sessions, db_scores, current_question, bags,
                   task, chat, hist, budget>>

\* The category cb_choose_round falls back to when none is pending.
FallbackCategory == <<"O", "b">>

\* cb_choose_round up to `await cb.message.edit_text(...)`.
cbr_get_state(t, rounds) ==
    /\ task[t].pc = "idle"
    /\ budget.round > 0
    /\ budget' = [budget EXCEPT !.round = @ - 1]
    /\ IF ~config \/ get_state(state).active
       THEN UNCHANGED task
       ELSE task' = [task EXCEPT ![t] = [IdleTask EXCEPT
                !.pc = "cbr_edit_text",
                !.rounds = clamp_rounds(rounds),
                !.tag = IF pending_setup = NoneText THEN FallbackCategory
                        ELSE pending_setup]]
    /\ UNCHANGED <<now, config, call, state, sessions, db_scores, current_question, bags,
                   pending_setup, chat, hist>>

\* await cb.message.edit_text("quiz started"), then pending_setup.pop(key, None)
cbr_edit_text(t) ==
    /\ task[t].pc = "cbr_edit_text"
    /\ pending_setup' = NoneText
    /\ task' = [task EXCEPT ![t].pc = "cbr_create_session"]
    /\ UNCHANGED <<now, config, call, state, sessions, db_scores, current_question, bags,
                   chat, hist, budget>>

\* session_id=await create_session(...), evaluated as an argument of set_state
cbr_create_session(t) ==
    /\ task[t].pc = "cbr_create_session"
    /\ sessions' = create_session(task[t].tag, task[t].rounds)
    /\ task' = [task EXCEPT ![t].pc = "cbr_set_state",
                            ![t].session_id = Len(sessions) + 1]
    /\ UNCHANGED <<now, config, call, state, db_scores, current_question, bags,
                   pending_setup, chat, hist, budget>>

\* await set_state(active=True, ..., session_id=..., category=category): the
\* handler ends with the exception when the statement is rejected.
cbr_set_state(t) ==
    /\ task[t].pc = "cbr_set_state"
    /\ LET kwargs ==
             [active |-> 1, current_qid |-> None, winner_user_id |-> None,
              deadline_ts |-> None, tag |-> NoneText, round_total |-> task[t].rounds,
              round_current |-> 0, session_id |-> task[t].session_id,
              hint_level |-> 0, hint_total |-> 0, hint_answer |-> NoneText,
              next_hint_ts |-> None, category |-> task[t].tag]
       IN  IF set_state_raises(kwargs)
           THEN /\ task' = [task EXCEPT ![t] = IdleTask]
                /\ UNCHANGED <<state, hist>>
           ELSE /\ state' = set_state(state, kwargs)
                /\ hist' = [hist EXCEPT !.in_state = 0, !.stopped = FALSE]
                /\ task' = [task EXCEPT ![t] = [IdleTask EXCEPT !.pc = "pnq_get_state"]]
    /\ UNCHANGED <<now, config, call, sessions, db_scores, current_question, bags,
                   pending_setup, chat, budget>>

\* post_next_question and cb.answer() follow set_state, which never returns.
cb_choose_round(t) ==
    \/ \E rounds \in 1..MaxRounds : cbr_get_state(t, rounds)
    \/ cbr_edit_text(t)
    \/ cbr_create_session(t)
    \/ cbr_set_state(t)

\* --------------------------------------------------------------------- time

\* ------------------------------------------------------------------ faults

\* hint_watcher has no try/except: when `await get_state()` or
\* `await bot.send_message()` raises, the exception ends the coroutine.
hw_raises ==
    /\ budget.fault > 0
    /\ \/ task[HintTask].pc = "loop" /\ task[HintTask].rem = 0
       \/ task[HintTask].pc = "hw_send_message"
    /\ task' = [task EXCEPT ![HintTask] = IdleTask]
    /\ hist' = [hist EXCEPT !.fault = now]
    /\ budget' = [budget EXCEPT !.fault = @ - 1]
    /\ UNCHANGED <<now, config, call, state, sessions, db_scores, current_question, bags,
                   pending_setup, chat>>

\* timeout_watcher likewise.
tw_raises ==
    /\ budget.fault > 0
    /\ \/ task[TimeoutTask].pc = "loop" /\ task[TimeoutTask].rem = 0
       \/ task[TimeoutTask].pc = "tw_send_message"
    /\ task' = [task EXCEPT ![TimeoutTask] = IdleTask]
    /\ hist' = [hist EXCEPT !.fault = now]
    /\ budget' = [budget EXCEPT !.fault = @ - 1]
    /\ UNCHANGED <<now, config, call, state, sessions, db_scores, current_question, bags,
                   pending_setup, chat>>

\* on_text_answer: one of the three add_points_* awaits raises after the
\* winner lock; nothing catches it and the handler ends there.
ota_add_points_raises(t) ==
    /\ budget.fault > 0
    /\ task[t].pc \in {"ota_add_points_alltime", "ota_add_points_session",
                        "ota_add_points_event"}
    /\ task' = [task EXCEPT ![t] = IdleTask]
    /\ hist' = [hist EXCEPT !.fault = now]
    /\ budget' = [budget EXCEPT !.fault = @ - 1]
    /\ UNCHANGED <<now, config, call, state, sessions, db_scores, current_question, bags,
                   pending_setup, chat>>

\* No coroutine is running: each waits for an update or sleeps.
Quiet == \A t \in Tasks : task[t].pc = "idle" \/ task[t].rem > 0

\* Something waits for the clock: a running game's deadline or hint, or a
\* coroutine in asyncio.sleep other than a watcher between two polls.
Timing ==
    \/ get_state(state).active
    \/ \E t \in Tasks : task[t].pc # "loop" /\ task[t].rem > 0

\* A second passes.  An await other than asyncio.sleep completes within the
\* second it starts in, so the clock waits for the running coroutines; within
\* the second every interleaving is possible.  While nothing waits for the
\* clock the model does not advance it: no step reads it then.
Tick ==
    /\ now < budget.seconds
    /\ Quiet
    /\ Timing
    /\ now' = now + 1
    /\ task' = [t \in Tasks |-> [task[t] EXCEPT !.rem = Max(0, @ - 1)]]
    /\ UNCHANGED <<config, call, state, sessions, db_scores, current_question, bags,
                   pending_setup, chat, hist, budget>>

\* ----------------------------------------------------------- specifications

\* What every run has: the clock, the topic binding and the two watchers.
Background == Tick \/ cmd_set_topic \/ hint_watcher \/ timeout_watcher

\* One game, started by /quiz_start, and the answer attempts of two users.
Init == InitWith([NoBudget EXCEPT !.seconds = MaxSeconds, !.start = 1,
                                  !.answer = GameAnswers])
Next ==
    \/ Background
    \/ cmd_quiz_start("cmd_quiz_start_1")
    \/ \E t \in AnswerTasks : on_text_answer(t)
Spec == Init /\ [][Next]_vars

\* One game, one user's answer attempts and a /quiz_stop.
InitStop == InitWith([NoBudget EXCEPT !.seconds = MaxSeconds, !.start = 1,
                                      !.answer = StopAnswers, !.stop = 1])
NextStop ==
    \/ Background
    \/ cmd_quiz_start("cmd_quiz_start_1")
    \/ on_text_answer("on_text_answer_1")
    \/ \E t \in StopTasks : cmd_quiz_stop(t)
SpecStop == InitStop /\ [][NextStop]_vars

\* One game and a /skip.
InitSkip == InitWith([NoBudget EXCEPT !.seconds = MaxSeconds, !.start = 1, !.skip = 1])
NextSkip ==
    \/ Background
    \/ cmd_quiz_start("cmd_quiz_start_1")
    \/ \E t \in SkipTasks : cmd_skip(t)
SpecSkip == InitSkip /\ [][NextSkip]_vars

\* Start requests only: /quiz_start twice and the round-count menu once.
InitStart == InitWith([NoBudget EXCEPT !.seconds = MaxSeconds, !.start = RacingStarts,
                                       !.round = 1])
NextStart ==
    \/ Background
    \/ \E t \in StartTasks : cmd_quiz_start(t)
    \/ \E t \in RoundTasks : cb_choose_round(t)
    \/ cb_choose_category
SpecStart == InitStart /\ [][NextStart]_vars

\* One game over a catalog with a tag scope smaller than the catalog.
InitScope == InitOn([NoBudget EXCEPT !.seconds = MaxSeconds, !.start = 1], ScopedCatalog, NoCall)
NextScope ==
    \/ Background
    \/ cmd_quiz_start("cmd_quiz_start_1")
SpecScope == InitScope /\ [][NextScope]_vars

\* One game, one user's answer attempts, and one await that raises: a read or
\* a publish of a watcher, or a score write of the answer handler.
InitFault == InitWith([NoBudget EXCEPT !.seconds = MaxSeconds, !.start = 1,
                                       !.answer = StopAnswers, !.fault = 1])
NextFault ==
    \/ Background
    \/ cmd_quiz_start("cmd_quiz_start_1")
    \/ on_text_answer("on_text_answer_1")
    \/ hw_raises
    \/ tw_raises
    \/ ota_add_points_raises("on_text_answer_1")
SpecFault == InitFault /\ [][NextFault]_vars

\* One /quiz_start over a questions directory that is empty or not.
InitLoad ==
    \E loaded \in {<< >>, Catalog} :
        InitOn([NoBudget EXCEPT !.seconds = MaxSeconds, !.start = 1], loaded, NoCall)
NextLoad ==
    \/ Background
    \/ cmd_quiz_start("cmd_quiz_start_1")
SpecLoad == InitLoad /\ [][NextLoad]_vars

\* One game over a question with four hints, in which publishing a hint may
\* take until the next second.
InitDrift == InitOn([NoBudget EXCEPT !.seconds = MaxSeconds, !.start = 1], HintCatalog, NoCall)
NextDrift ==
    \/ Background
    \/ cmd_quiz_start("cmd_quiz_start_1")
    \/ hw_send_message_takes_a_second
SpecDrift == InitDrift /\ [][NextDrift]_vars

\* One game for the life of one question and the pause after it, with one
\* user's answer attempts.
InitAttempt == InitWith([NoBudget EXCEPT !.seconds = QUESTION_TTL_SEC + PAUSE_BETWEEN_SEC,
                                         !.start = 1, !.answer = StopAnswers])
NextAttempt ==
    \/ Background
    \/ cmd_quiz_start("cmd_quiz_start_1")
    \/ on_text_answer("on_text_answer_1")
SpecAttempt == InitAttempt /\ [][NextAttempt]_vars

\* The steps of a handler that is being executed: everything but the arrival
\* of its update.
start_in_flight(t) ==
    start_quiz_create_session(t) \/ start_quiz_set_state(t) \/ post_next_question(t)
answer_in_flight(t) ==
    \/ ota_set_state(t)
    \/ ota_add_points_alltime(t)
    \/ ota_add_points_session(t)
    \/ ota_add_points_event(t)
    \/ ota_reply(t)
    \/ post_next_question(t)

\* The event loop runs every coroutine that is ready, and time passes.
FairScheduling ==
    /\ WF_vars(Tick)
    /\ WF_vars(hint_watcher)
    /\ WF_vars(timeout_watcher)
    /\ WF_vars(start_in_flight("cmd_quiz_start_1"))
    /\ WF_vars(answer_in_flight("on_text_answer_1"))

\* One game followed to its end under fair scheduling, with one user's answer
\* attempts, over a questions directory that is empty or not.
InitLive ==
    \E loaded \in {<< >>, Catalog} :
        InitOn([NoBudget EXCEPT !.seconds = LiveSeconds, !.start = 1,
                                !.answer = StopAnswers], loaded, NoCall)
NextLive ==
    \/ Background
    \/ cmd_quiz_start("cmd_quiz_start_1")
    \/ on_text_answer("on_text_answer_1")
SpecLive == InitLive /\ [][NextLive]_vars /\ FairScheduling

\* ------------------------------------------------------------ direct calls

\* The scopes next_question is called with: a tag (one of them carried by no
\* question), or a category (one of them of no question) with the default tag.
DrawScopes ==
    {[tag |-> t, category |-> NoneText] : t \in {All, normalize(Geo), Ob_tag, <<"p", "a">>}}
        \cup {[tag |-> All, category |-> c] : c \in {Geo, <<"P", "O">>, Ob}}

\* quiz.next_question(tag=..., category=...): the bags change, the call returns
\* a question or raises.
call_next_question ==
    /\ call.fn = "next_question"
    /\ Len(call.draws) < MaxDraws
    /\ \E scope \in DrawScopes : \E d \in next_question(bags, scope.tag, scope.category) :
          /\ bags' = d.bags
          /\ call' = [call EXCEPT !.draws =
                         Append(@, [tag |-> scope.tag, category |-> scope.category,
                                    raises |-> d.raises, qid |-> d.qid])]
    /\ UNCHANGED <<now, config, state, sessions, db_scores, current_question,
                   pending_setup, task, chat, hist, budget>>

\* A display answer of n alphanumeric characters: bare, or with a space or a
\* hyphen after the first one.
AnswerOf(n, sep) ==
    IF sep = "" THEN [i \in 1..n |-> "a"]
    ELSE IF n = 0 THEN <<sep>>
    ELSE <<"a", sep>> \o [i \in 1..(n - 1) |-> "a"]

\* The calls made on the planner: a question's hints, or a score.
PlannerCalls ==
    {[fn |-> "choose_hint_plan", n |-> n, answer_display |-> AnswerOf(n, sep), seed |-> seed]
        : n \in 0..MaxAlnum, sep \in {"", " ", "-"}, seed \in 0..MaxSeed}
      \cup {[fn |-> "points_for_hint_level", hint_level |-> l, pts |-> None] : l \in 0..MaxLevel}

\* post_next_question: plan = choose_hint_plan(answer_display)
call_choose_hint_plan ==
    /\ call.fn = "choose_hint_plan"
    /\ call' = [fn |-> "hint", n |-> call.n, answer_display |-> call.answer_display,
                seed |-> call.seed, plan |-> choose_hint_plan(call.answer_display),
                hint_level |-> 0, revealed |-> << >>]
    /\ UNCHANGED <<now, config, state, sessions, db_scores, current_question, bags,
                   pending_setup, task, chat, hist, budget>>

\* hint_watcher: the next hint of the question, revealed[k] for level k.
call_reveal_positions ==
    /\ call.fn = "hint"
    /\ call.hint_level < call.plan.hint_total
    /\ call' = [call EXCEPT
                  !.hint_level = @ + 1,
                  !.revealed = Append(@, reveal_positions(call.answer_display, call.seed,
                                          call.hint_level + 1, call.plan.hint_total))]
    /\ UNCHANGED <<now, config, state, sessions, db_scores, current_question, bags,
                   pending_setup, task, chat, hist, budget>>

\* on_text_answer: pts = points_for_hint_level(hint_level)
call_points_for_hint_level ==
    /\ call.fn = "points_for_hint_level"
    /\ call.pts = None
    /\ call' = [call EXCEPT !.pts = points_for_hint_level(call.hint_level)]
    /\ UNCHANGED <<now, config, state, sessions, db_scores, current_question, bags,
                   pending_setup, task, chat, hist, budget>>

\* The hint planner and the score alone.
InitPlanner == \E c \in PlannerCalls : InitOn(NoBudget, Catalog, c)
NextPlanner ==
    \/ call_choose_hint_plan
    \/ call_reveal_positions
    \/ call_points_for_hint_level
SpecPlanner == InitPlanner /\ [][NextPlanner]_vars

\* The QuizEngine alone, over the catalog of three questions.
InitDraw == InitOn(NoBudget, DrawCatalog, [fn |-> "next_question", draws |-> << >>])
NextDraw == call_next_question
SpecDraw == InitDraw /\ [][NextDraw]_vars

\* ------------------------------------------------------------------- claims

Range(s) == {s[i] : i \in 1..Len(s)}
Count(kind) == Cardinality({i \in 1..Len(chat) : chat[i].kind = kind})
Last(s) == s[Len(s)]
RoundState == get_state(state)

\* The questions won: the winner locks of answers that matched the question the
\* Round State held when they read it.
Won == {c.post : c \in {x \in Range(hist.claims) : x.post = x.read}}

\* C1: of the correct answers given to one active question exactly one locks
\* the winner and scores: no question is claimed twice.
C1_OneWinnerPerQuestion ==
    \A i, j \in 1..Len(hist.claims) :
        /\ hist.claims[i].post = hist.claims[i].read
        /\ hist.claims[i] = hist.claims[j]
        => i = j

\* C2: a question is resolved by a timeout announcement or by a win, never by
\* both.
C2_TimeoutOrWin ==
    \A i \in 1..Len(chat) : chat[i].kind = "timeout" => chat[i].post \notin Won

\* C3: once stop_quiz is done, and as long as no start request is being
\* handled, the Round State is inactive and no question, hint or timeout is
\* published.
C3_StopIsFinal ==
    [][hist.stopped /\ NoStartRequest =>
         /\ ~get_state(state').active
         /\ Len(chat') > Len(chat) =>
                Last(chat').kind \notin {"question", "hint", "timeout"}]_vars

\* C4: no hint and no timeout announcement is published for a question whose
\* winner has been claimed.
C4_NoHintAfterWin ==
    [][Len(chat') > Len(chat) /\ Last(chat').kind \in {"hint", "timeout"}
         => Last(chat').post \notin Won]_vars

\* C5: the game of round_total = N posts N questions, then one finished-game
\* announcement with its session closed, and no question after it.
C5_ExactlyNQuestions ==
    sessions # << >> =>
        LET N == sessions[1].round_total
            Q == Count("question")
            F == Count("finished")
        IN  /\ Q <= N
            /\ F <= 1
            /\ F = 1 => /\ Q = N
                        /\ sessions[1].ended_at # None
                        /\ \A i, j \in 1..Len(chat) :
                              chat[i].kind = "question" /\ chat[j].kind = "finished" => i < j

\* C6: every scored answer is written once to each of the lifetime, session
\* and event scopes with one delta: whenever no handler is between its score
\* writes, a user's lifetime points, session points and event deltas agree.
Sum(f) ==
    LET RECURSIVE S(_)
        S(D) == IF D = {} THEN 0 ELSE LET x == CHOOSE x \in D : TRUE IN f[x] + S(D \ {x})
    IN  S(DOMAIN f)
ScoreWritesPending ==
    \E t \in AnswerTasks :
        task[t].pc \in {"ota_add_points_alltime", "ota_add_points_session",
                        "ota_add_points_event"}
EventPoints(u) ==
    Sum([i \in {k \in 1..Len(points_events) : points_events[k].user_id = u}
            |-> points_events[i].delta])
SessionPoints(u) ==
    Sum([k \in {x \in DOMAIN session_scores : x[2] = u} |-> session_scores[k]])
C6_ThreeScopesAgree ==
    ~ScoreWritesPending =>
        \A u \in Users : scores[u] = EventPoints(u) /\ SessionPoints(u) = EventPoints(u)

\* C7: a locked winner means no deadline and no scheduled hint.
C7_WinnerFreezesSchedulers ==
    RoundState.winner_user_id # None =>
        RoundState.deadline_ts = None /\ RoundState.next_hint_ts = None

\* C8: hint_level never exceeds hint_total.
C8_HintLevelBounded == RoundState.hint_level <= RoundState.hint_total

\* C9: an inactive Round State has every per-question field at its baseline.
C9_InactiveIsCleared ==
    ~RoundState.active =>
        /\ RoundState.current_qid = None
        /\ RoundState.winner_user_id = None
        /\ RoundState.deadline_ts = None
        /\ RoundState.hint_level = 0
        /\ RoundState.hint_total = 0
        /\ RoundState.hint_answer = NoneText
        /\ RoundState.next_hint_ts = None

\* C10: a start request opens a session only when no game is running: at most
\* one session of the channel is open at a time.
OpenSessions == {i \in 1..Len(sessions) : sessions[i].ended_at = None}
C10_OneOpenSession == Cardinality(OpenSessions) <= 1

\* C11: a posted question belongs to the scope its game was started with,
\* whenever that scope has eligible questions.
GameScope == SeqToSet(ids_for_tag(sessions[Len(sessions)].tag))
C11_QuestionFromScope ==
    (chat # << >> /\ Last(chat).kind = "question" /\ Last(chat).post = hist.in_state)
        => (GameScope # {} => RoundState.current_qid \in GameScope)

\* The bag a draw popped: the category's bag, or the tag's; a category of no
\* question falls back to the bag of tag all.
InCategory(category) ==
    {q.id : q \in {x \in SeqToSet(questions) : normalize(x.category) = normalize(category)}}
BagOf(e) ==
    IF e.category # NoneText /\ InCategory(e.category) # {}
    THEN [kind |-> "category", key |-> normalize(e.category)]
    ELSE [kind |-> "tag", key |-> IF e.category # NoneText THEN All ELSE e.tag]
Eligible(bag) ==
    IF bag.kind = "tag" THEN SeqToSet(ids_for_tag(bag.key)) ELSE InCategory(bag.key)
DrawnBags == {BagOf(e) : e \in {x \in Range(call.draws) : ~x.raises}}
\* The ids popped from one bag, in the order of the draws.
Drawn(bag) == SelectSeq(call.draws, LAMBDA e : ~e.raises /\ BagOf(e) = bag)
NoDuplicate(ids) == \A i, j \in 1..Len(ids) : ids[i] = ids[j] => i = j

\* C12: the draws from a bag of N eligible questions come in rounds of N, each
\* round returns eligible ids without a repeat (so a full round returns each
\* once), and no bag holds an id twice.
C12_DrawsArePermutations ==
    call.fn = "next_question" =>
        /\ \A bag \in DrawnBags :
              LET N == Cardinality(Eligible(bag))
                  ids == Drawn(bag)
              IN  \A i, j \in 1..Len(ids) :
                    /\ ids[i].qid \in Eligible(bag)
                    /\ (i < j /\ (i - 1) \div N = (j - 1) \div N) => ids[i].qid # ids[j].qid
        /\ \A t \in DOMAIN bags.by_tag : NoDuplicate(bags.by_tag[t])
        /\ \A c \in DOMAIN bags.by_category : NoDuplicate(bags.by_category[c])
\* Three draws from the bag of tag all have returned its three ids.
C12_Witness ==
    /\ call.fn = "next_question"
    /\ \E bag \in DrawnBags :
          /\ Cardinality(Eligible(bag)) = 3
          /\ {Drawn(bag)[i].qid : i \in 1..Len(Drawn(bag))} = Eligible(bag)

\* C13 as stated: two consecutive draws from a scope of two or more questions
\* never return the same id.
C13_NoImmediateRepeat ==
    call.fn = "next_question" =>
        \A bag \in DrawnBags :
            Cardinality(Eligible(bag)) >= 2 =>
                \A i \in 1..(Len(Drawn(bag)) - 1) : Drawn(bag)[i].qid # Drawn(bag)[i + 1].qid
\* C13 as amended: two consecutive draws from a scope of two or more questions
\* return different ids unless the bag was refilled between them.
C13_NoRepeatWithinBag ==
    call.fn = "next_question" =>
        \A bag \in DrawnBags :
            LET N == Cardinality(Eligible(bag))
            IN  N >= 2 =>
                  \A i \in 1..(Len(Drawn(bag)) - 1) :
                      i % N # 0 => Drawn(bag)[i].qid # Drawn(bag)[i + 1].qid
\* The last id of a bag and the first id of its refill are the same.
C13_Witness ==
    /\ call.fn = "next_question"
    /\ \E bag \in DrawnBags :
          LET N == Cardinality(Eligible(bag))
          IN  /\ N >= 2
              /\ Len(Drawn(bag)) > N
              /\ Drawn(bag)[N].qid = Drawn(bag)[N + 1].qid

\* C14: a watcher survives a failed read or publish: a timeout or hint that
\* becomes due after the failure is still acted on, so no question stays
\* overdue without its timeout announcement and no hint stays overdue.
C14_WatchersSurviveFaults ==
    LET st == RoundState
        later(ts) == ts # None /\ hist.fault # None /\ hist.fault < ts /\ now > ts
    IN  (st.active /\ st.winner_user_id = None) =>
            /\ later(st.deadline_ts) =>
                  \E i \in 1..Len(chat) :
                      chat[i].kind = "timeout" /\ chat[i].post = hist.in_state
            /\ ~(later(st.next_hint_ts) /\ st.hint_level < st.hint_total)

\* C15: a failed score write blocks neither the winning announcement nor the
\* advance: once the answer handlers are done (and no question is being
\* written), every winner lock of a posted question has its announcement and
\* no running game is left with a locked winner.
C15_WinSurvivesScoreFault ==
    (\A t \in Tasks : task[t].pc \in {"idle", "loop"}) =>
        /\ \A c \in {x \in Range(hist.claims) : x.post = x.read} :
              \E i \in 1..Len(chat) : chat[i].kind = "win" /\ chat[i].post = c.post
        /\ ~(RoundState.active /\ RoundState.winner_user_id # None)

\* C16: with no eligible question, a start ends the game gracefully: once the
\* start handler is done the Round State is inactive and the session closed.
C16_EmptyScopeEndsGame ==
    (questions = << >> /\ sessions # << >> /\ NoStartRequest) =>
        /\ ~RoundState.active
        /\ \A i \in 1..Len(sessions) : sessions[i].ended_at # None

\* C17: the positions a hint reveals are among those the next hint reveals.
C17_RevealIsCumulative ==
    call.fn = "hint" =>
        \A k \in 1..(Len(call.revealed) - 1) : call.revealed[k] \subseteq call.revealed[k + 1]
\* The four hints of an answer of eleven characters, each revealing more.
C17_Witness ==
    /\ call.fn = "hint"
    /\ Len(call.revealed) = 4
    /\ \A k \in 1..3 : call.revealed[k] # call.revealed[k + 1]

\* C18 as stated: the last hint reveals every alphanumeric index.
C18_LastHintRevealsAll ==
    (call.fn = "hint" /\ call.plan.hint_total > 0 /\ call.hint_level = call.plan.hint_total) =>
        call.revealed[call.plan.hint_total] = SeqToSet(alnum_positions(call.answer_display))
\* C18 as amended: the last hint reveals k = max(1, ceil(n * hint_total /
\* (hint_total + 1))) alphanumeric indices, and k < n: some stay hidden.
C18_LastHintRevealsPart ==
    (call.fn = "hint" /\ call.plan.hint_total > 0 /\ call.hint_level = call.plan.hint_total) =>
        LET h == call.plan.hint_total
            shown == call.revealed[h]
            q == (call.n * h) \div (h + 1)
            k == IF q * (h + 1) = call.n * h THEN q ELSE q + 1
        IN  /\ shown \subseteq SeqToSet(alnum_positions(call.answer_display))
            /\ Cardinality(shown) = k
            /\ 1 <= k /\ k < call.n
\* The last of four hints of an answer of eleven characters shows nine.
C18_Witness ==
    /\ call.fn = "hint"
    /\ call.n = 11
    /\ call.hint_level = 4
    /\ Cardinality(call.revealed[4]) = 9

\* C19: hint_total is 0, 1, 2, 3, 4 for n up to 2, 4, 7, 10 and beyond, and for
\* hint_total > 0 the interval is max(4, max(5, TTL - 7) // (hint_total + 1)).
C19_HintPlan ==
    call.fn = "hint" =>
        LET n == call.n
            h == call.plan.hint_total
        IN  /\ (n <= 2) => h = 0
            /\ (3 <= n /\ n <= 4) => h = 1
            /\ (5 <= n /\ n <= 7) => h = 2
            /\ (8 <= n /\ n <= 10) => h = 3
            /\ (11 <= n) => h = 4
            /\ h > 0 => call.plan.interval_sec =
                            Max(4, Max(5, QUESTION_TTL_SEC - 7) \div (h + 1))
\* Eleven characters, with a separator among them, get the cap of four hints.
C19_Witness ==
    /\ call.fn = "hint"
    /\ call.n = 11
    /\ Len(call.answer_display) = 12
    /\ call.plan = [hint_total |-> 4, interval_sec |-> 4]

\* C20: the score is 5, 4, 3, 2, 1 for hint levels 0 to 4 and 1 for every
\* higher level.
C20_PointsForHintLevel ==
    (call.fn = "points_for_hint_level" /\ call.pts # None) =>
        /\ call.hint_level <= 4 => call.pts = 5 - call.hint_level
        /\ call.hint_level > 4 => call.pts = 1
        /\ call.pts \in 1..5
\* Hint level 10 scores 1.
C20_Witness ==
    /\ call.fn = "points_for_hint_level"
    /\ call.hint_level = 10
    /\ call.pts = 1

\* C21: under fair scheduling, with no stop request and no failed await, a
\* started game eventually reaches the inactive state with its session closed.
C21_GameTerminates ==
    (sessions # << >>) ~>
        (~RoundState.active /\ \A i \in 1..Len(sessions) : sessions[i].ended_at # None)
\* The same for the games over a questions directory that holds a question.
C21_LoadedGameTerminates ==
    (questions # << >>) => C21_GameTerminates

\* C22: a posted question that gets no correct answer and that the game has
\* moved on from (a later question or the end of the game was announced) has
\* exactly one timeout announcement.
Unanswered(post) == \A i \in 1..Len(hist.claims) : hist.claims[i].post # post
MovedOnFrom(i) == \E j \in (i + 1)..Len(chat) : chat[j].kind \in {"question", "finished"}
TimeoutsOf(post) == {j \in 1..Len(chat) : chat[j].kind = "timeout" /\ chat[j].post = post}
C22_OneTimeoutPerQuestion ==
    \A i \in 1..Len(chat) :
        (chat[i].kind = "question" /\ Unanswered(chat[i].post) /\ MovedOnFrom(i))
            => Cardinality(TimeoutsOf(chat[i].post)) = 1

\* C23: the end timestamp of a session is written at most once: end_session
\* is never executed twice with one session id.
C23_SessionEndedOnce == NoDuplicate(hist.ended)

\* C24: the Round State's session_id is absent whenever no game is running,
\* and while a game is running it is the id of an open session.
C24_SessionIdTracksGame ==
    /\ ~RoundState.active => RoundState.session_id = None
    /\ RoundState.active => RoundState.session_id \in OpenSessions

\* C25: a draw for a category of no question does not fail: it pops the bag
\* of tag all (refilled first when empty) and returns the popped question.
C25_EmptyCategoryFallsBack ==
    [][(call.fn = "next_question" /\ Len(call'.draws) > Len(call.draws)) =>
         LET e == Last(call'.draws)
             had == IF All \in DOMAIN bags.by_tag /\ bags.by_tag[All] # << >>
                    THEN Len(bags.by_tag[All]) ELSE Len(questions)
         IN  (e.category # NoneText /\ InCategory(e.category) = {}) =>
                /\ ~e.raises
                /\ e.qid \in SeqToSet(ids_for_tag(All))
                /\ All \in DOMAIN bags'.by_tag
                /\ Len(bags'.by_tag[All]) = had - 1
                /\ e.qid \notin SeqToSet(bags'.by_tag[All])]_vars
\* A draw for a category of no question, made after a draw from the bag of
\* tag all, has returned a question.
C25_Witness ==
    /\ call.fn = "next_question"
    /\ \E i \in 1..Len(call.draws) : \E j \in 1..Len(call.draws) :
          /\ i < j
          /\ call.draws[i].category = NoneText /\ call.draws[i].tag = All
          /\ call.draws[j].category = Ob /\ InCategory(Ob) = {}
          /\ call.draws[j].qid # None

\* C26: when an answer handler accepts a correct answer to the question of the
\* Round State, the score it awards is max(1, 5 - h) for the h hints published
\* for that question so far.
HintsPublished(post) ==
    Cardinality({i \in 1..Len(chat) : chat[i].kind = "hint" /\ chat[i].post = post})
C26_ScoreCountsPublishedHints ==
    [][\A t \in AnswerTasks :
         (task[t].pc = "idle" /\ task'[t].pc = "ota_set_state"
             /\ task'[t].post = task'[t].read)
            => task'[t].pts = Max(1, 5 - HintsPublished(task'[t].read))]_vars

\* C27: while a game is running and no post_next_question is between its
\* draw and its post, round_current is the number of questions posted in the
\* game.
PostInFlight == \E t \in Tasks : task[t].pc \in {"pnq_set_state", "pnq_send_question"}
C27_RoundCurrentCountsPosts ==
    (RoundState.active /\ ~PostInFlight) => RoundState.round_current = Count("question")

\* C28: an answer attempt that is ignored (no game is running, a winner is
\* locked, the text is empty after normalization, or it equals no accepted
\* answer or alias of the current question after normalization) changes
\* neither the Round State nor a score record, and its handler ends there.
AcceptedTexts ==
    IF current_question = None THEN {}
    ELSE {normalize(a) : a \in SeqToSet(by_id(current_question).answers)}
            \cup {normalize(a) : a \in SeqToSet(by_id(current_question).aliases)}
IgnoredAttempt(text) ==
    \/ ~RoundState.active
    \/ RoundState.winner_user_id # None
    \/ normalize(text) = << >>
    \/ normalize(text) \notin AcceptedTexts
C29_LastSecondsFreeOfHints ==
    [][(Len(chat') > Len(chat) /\ Last(chat').kind = "hint"
            /\ Last(chat').post = hist.in_state)
         => /\ RoundState.deadline_ts # None
            /\ now <= RoundState.deadline_ts - 7]_vars

\* C30: a start from the round-count menu records the session it opens in the
\* Round State and posts the first question: once cb_choose_round is done,
\* and no /quiz_start has opened a session, the open session it created is the
\* state's session_id, the game is running and a question is current.
MenuCategories == list_categories \cup {FallbackCategory}
C30_MenuStartEntersGame ==
    (/\ \A t \in RoundTasks : task[t].pc = "idle"
     /\ \A i \in 1..Len(sessions) : sessions[i].tag \in MenuCategories)
        => \A i \in OpenSessions :
              /\ RoundState.session_id = i
              /\ RoundState.active
              /\ RoundState.current_qid # None

\* C31: whenever on_text_answer evaluates an attempt (a game is running, no
\* winner is locked, a question is in memory and the text is not empty after
\* normalization), the question in current_question that it checks the text
\* against is the one named by the current_qid of the state it read, also
\* while a post_next_question is between its draw and its state write.
EvaluatedAttempt(text) ==
    /\ config
    /\ RoundState.active
    /\ RoundState.winner_user_id = None
    /\ current_question # None
    /\ Len(normalize(text)) >= 1
C31_AttemptChecksStateQuestion ==
    [][\A t \in AnswerTasks : \A text \in Texts :
         (ota_get_state(t, text) /\ EvaluatedAttempt(text))
            => current_question = RoundState.current_qid]_vars

====
